---- MODULE Spec2Model ----
(***************************************************************************)
(* Model of src/src/gitrama_mcp/server.py: the MCP tool handlers of the    *)
(* gitrama adapter, the process runner _run_gtr and the result formatter   *)
(* _format_result.                                                         *)
(*                                                                         *)
(* One tool invocation is followed from the call of its handler to its     *)
(* return (or to the exception that escapes it).  The handlers suspend at  *)
(* their awaits, so a handler is cut at each await: the part up to the     *)
(* spawn of a child, and the part that runs when the awaited communicate() *)
(* returns or the wait_for timer fires.  The children are the environment: *)
(* a running child may exit at any moment, or never.                       *)
(*                                                                         *)
(* Text (a Python str) is a sequence of tokens.  A token is one character  *)
(* (" ", "a", a digit) or one literal phrase of the source that is never   *)
(* taken apart ("--type", "Unknown error").  The empty str is <<>>.        *)
(***************************************************************************)
EXTENDS Integers, Sequences, FiniteSets, TLC

VARIABLES
    pc,         \* position of the handler: idle, stage_wait, run_wait, done, raised
    tool,       \* name of the tool handler that was called
    params,     \* the parameters the caller supplied
    args,       \* local `args` of the handler: the vector given to _run_gtr
    timeout,    \* local `timeout` of _run_gtr
    context,    \* the `context` string given to _format_result
    procs,      \* the child processes spawned so far, in spawn order
    stage_exc,  \* the exception caught by the staging step, or "None"
    ret,        \* which return of _run_gtr ran: exit, timeout, not_found, or "None"
    result,     \* the dict returned by _run_gtr, or NoResult
    response,   \* the str returned by the handler, or NoResponse
    fault       \* the exception that escaped the handler, or "None"

vars == <<pc, tool, params, args, timeout, context, procs, stage_exc,
          ret, result, response, fault>>

None == "None"

\* _run_gtr has not returned
NoResult == [none |-> TRUE]

\* the handler has not returned; no handler returns this text
NoResponse == <<None>>

-----------------------------------------------------------------------------
(* Bounds of the model *)

\* longest raw output (in bytes) a child writes to one of its pipes
MaxOut == 1

-----------------------------------------------------------------------------
(* Program constants *)

DefaultTimeout == 120
AskTimeout == 180
DefaultCount == 10
MinCount == 1
MaxCount == 50

-----------------------------------------------------------------------------
(* Text helpers *)

\* f"{a}{b}"
Cat(a, b) == a \o b

\* Python truthiness of a str
Truthy(s) == s # <<>>

\* Python `a or b` on str values
Or(a, b) == IF Truthy(a) THEN a ELSE b

IsSpace(c) == c = " "

\* str.strip(): drop leading and trailing whitespace
RECURSIVE LStrip(_)
LStrip(s) ==
    IF s # <<>> /\ IsSpace(Head(s)) THEN LStrip(Tail(s)) ELSE s

RECURSIVE RStrip(_)
RStrip(s) ==
    IF s # <<>> /\ IsSpace(s[Len(s)]) THEN RStrip(SubSeq(s, 1, Len(s) - 1)) ELSE s

Strip(s) == RStrip(LStrip(s))

\* bytes.decode("utf-8", errors="replace"): an undecodable byte becomes U+FFFD
DecodeByte(b) == IF b = "xFF" THEN "U+FFFD" ELSE b

Decode(bs) == [i \in 1..Len(bs) |-> DecodeByte(bs[i])]

\* str(n) for an int
DigitChar == <<"0", "1", "2", "3", "4", "5", "6", "7", "8", "9">>

RECURSIVE StrNat(_)
StrNat(n) ==
    IF n < 10 THEN <<DigitChar[n + 1]>>
    ELSE Append(StrNat(n \div 10), DigitChar[(n % 10) + 1])

Str(n) == IF n < 0 THEN <<"-">> \o StrNat(0 - n) ELSE StrNat(n)

\* ' '.join(list of str)
RECURSIVE Join(_)
Join(l) ==
    IF l = <<>> THEN <<>>
    ELSE IF Len(l) = 1 THEN l[1]
    ELSE l[1] \o <<" ">> \o Join(Tail(l))

\* str.split(): the maximal runs of non-whitespace
RECURSIVE SplitFrom(_, _, _)
SplitFrom(s, cur, acc) ==
    IF s = <<>> THEN (IF cur = <<>> THEN acc ELSE Append(acc, cur))
    ELSE IF IsSpace(Head(s))
         THEN SplitFrom(Tail(s), <<>>, IF cur = <<>> THEN acc ELSE Append(acc, cur))
         ELSE SplitFrom(Tail(s), Append(cur, Head(s)), acc)

Split(s) == SplitFrom(s, <<>>, <<>>)

-----------------------------------------------------------------------------
(* Inputs: the values a caller may supply and the outcomes of the world *)

\* an optional free-text parameter: absent (empty) or present
OptText == {<<>>, <<"x">>}

\* a required free-text parameter (nothing in the code rejects the empty str)
ReqText == {<<"q">>, <<>>}

MessageTypes == {<<"conventional">>, <<"simple">>, <<>>}

Scopes == {<<"auto">>, <<"branch">>, <<>>}

Formats == {<<"markdown">>, <<"json">>, <<>>}

\* the `files` parameter: ".", one path, two paths, the empty str
Files == {<<".">>, <<"a">>, <<"a", " ", "b">>, <<>>}

\* the `count` parameter: the default and the ints around both ends of the clamp
Counts ==
    (MinCount - 2)..(MinCount + 1) \cup {DefaultCount} \cup (MaxCount - 1)..(MaxCount + 2)

\* what asyncio.create_subprocess_exec can do: start the child, or raise
SpawnOutcomes == {"ok", "FileNotFoundError", "PermissionError"}

\* Process.returncode of an exited child (negative: killed by that signal)
ExitCodes == {0, 1, -1}

Bytes == {"a", " ", "xFF"}

RawOutputs == UNION {[1..n -> Bytes] : n \in 0..MaxOut}

\* str(e) of the OSError raised for `program`
ExcText(e, program) ==
    IF e = "FileNotFoundError"
    THEN <<"[Errno 2] No such file or directory: ">> \o program
    ELSE <<"[Errno 13] Permission denied: ">> \o program

-----------------------------------------------------------------------------
(* Helpers of server.py *)

\* a child as asyncio.create_subprocess_exec leaves it: started, pipes empty
NewProc(cmd) ==
    [cmd |-> cmd, status |-> "running", returncode |-> None,
     stdout |-> <<>>, stderr |-> <<>>]

\* the dict _run_gtr returns when communicate() returned
NormalResult(returncode, stdout_bytes, stderr_bytes) ==
    [success |-> (returncode = 0),
     stdout |-> Strip(Decode(stdout_bytes)),
     stderr |-> Strip(Decode(stderr_bytes)),
     returncode |-> returncode]

TimeoutMessage(t, cmd) ==
    <<"Command timed out after ">> \o Str(t) \o <<"s: ">> \o Join(cmd)

\* TimeoutResult with the exit code of a successful run
TimeoutResult_ZeroCode(t, cmd) ==
    [success |-> FALSE,
     stdout |-> <<>>,
     stderr |-> TimeoutMessage(t, cmd),
     returncode |-> 0]

\* the dict _run_gtr returns from `except asyncio.TimeoutError`
TimeoutResult(t, cmd) ==
    [success |-> FALSE,
     stdout |-> <<>>,
     stderr |-> TimeoutMessage(t, cmd),
     returncode |-> -1]

InstallHint ==
    <<"gitrama CLI not found. Install with: pip install gitrama\nDocs: https://gitrama.ai">>

\* the dict _run_gtr returns from `except FileNotFoundError`
NotFoundResult ==
    [success |-> FALSE,
     stdout |-> <<>>,
     stderr |-> InstallHint,
     returncode |-> -1]

\* the two prefixes of _format_result (a check mark and a cross mark in the source)
OkPrefix == <<"[ok] ">>

ErrorPrefix == <<"[x] Error: ">>

\* _format_result with the two streams of a failed result tried in the other order
_format_result_StdoutFirst(r, ctx) ==
    IF r.success
    THEN IF Truthy(r.stdout) THEN r.stdout ELSE Cat(OkPrefix, Or(ctx, <<"Done">>))
    ELSE Cat(ErrorPrefix, Or(r.stdout, Or(r.stderr, <<"Unknown error">>)))

\* _format_result without the fallback for an empty stdout
_format_result_NoConfirmation(r, ctx) ==
    IF r.success
    THEN r.stdout
    ELSE Cat(ErrorPrefix, Or(r.stderr, Or(r.stdout, <<"Unknown error">>)))

\* _format_result(result, context)
_format_result(r, ctx) ==
    IF r.success
    THEN IF Truthy(r.stdout) THEN r.stdout ELSE Cat(OkPrefix, Or(ctx, <<"Done">>))
    ELSE Cat(ErrorPrefix, Or(r.stderr, Or(r.stdout, <<"Unknown error">>)))

\* _run_gtr's `cmd`
GtrCmd(a) == <<(<<"gtr">>)>> \o a

\* `if value: args.extend([flag, value])`
Ext(a, flag, value) == IF Truthy(value) THEN a \o <<flag, value>> ELSE a

\* gitrama_commit: lines 128-134
CommitArgs(message_type, ctx, model) ==
    Append(Ext(Ext(<<(<<"commit">>), (<<"--type">>), message_type>>,
                   <<"--context">>, ctx),
               <<"--model">>, model),
           <<"--yes">>)

\* the clamp with min and max exchanged: max(min(count, 1), 50)
Clamp_Swapped(count) ==
    LET lo == IF count < MinCount THEN count ELSE MinCount
    IN  IF lo > MaxCount THEN lo ELSE MaxCount

\* gitrama_commit_quality: line 203
Clamp(count) ==
    LET lo == IF count > MinCount THEN count ELSE MinCount
    IN  IF lo < MaxCount THEN lo ELSE MaxCount

\* gitrama_commit_quality: line 204
QualityArgs(count) ==
    <<(<<"commit">>), (<<"--quality">>), (<<"--count">>), Str(Clamp(count))>>

\* gitrama_ask: lines 240-244
AskArgs(question, scope, model) ==
    Ext(IF scope # <<"auto">>
        THEN <<(<<"ask">>), question, (<<"--scope">>), scope>>
        ELSE <<(<<"ask">>), question>>,
        <<"--model">>, model)

\* gitrama_branch: lines 268-270
BranchArgs(name, base) == Ext(<<(<<"branch">>), name>>, <<"--base">>, base)

\* gitrama_branch_suggest: lines 295-297
BranchSuggestArgs(description, model) ==
    Ext(<<(<<"branch">>), (<<"--suggest">>), description>>, <<"--model">>, model)

\* gitrama_pr: lines 322-326
PrArgs(base, model) ==
    Ext(Ext(<<(<<"pr">>)>>, <<"--base">>, base), <<"--model">>, model)

\* gitrama_changelog: lines 355-363
ChangelogArgs(since, until, format, model) ==
    Ext(Ext(Ext(Ext(<<(<<"changelog">>)>>, <<"--since">>, since),
                <<"--until">>, until),
            <<"--format">>, format),
        <<"--model">>, model)

\* gitrama_stream_switch: lines 404-406
StreamSwitchArgs(name, description) ==
    Ext(<<(<<"stream">>), (<<"switch">>), name>>, <<"--description">>, description)

\* gitrama_stage_and_commit: lines 165-166
StageCmd(files) ==
    <<(<<"git">>), (<<"add">>)>> \o (IF files # <<".">> THEN Split(files) ELSE <<(<<".">>)>>)

-----------------------------------------------------------------------------
(* State after the server has started: no handler is running *)

Init ==
    /\ pc = "idle"
    /\ tool = None
    /\ params = <<>>
    /\ args = <<>>
    /\ timeout = 0
    /\ context = <<>>
    /\ procs = <<>>
    /\ stage_exc = None
    /\ ret = None
    /\ result = NoResult
    /\ response = NoResponse
    /\ fault = None

-----------------------------------------------------------------------------
(* _run_gtr *)

\* _run_gtr up to its first suspension (lines 54-64 and the except clauses),
\* called with the children `ps` spawned so far: the spawn starts the child,
\* or raises; FileNotFoundError is turned into a result, which the calling
\* handler formats and returns; any other exception leaves the handler
_run_gtr(ps, a, t, ctx, outcome) ==
    /\ args' = a
    /\ timeout' = t
    /\ context' = ctx
    /\ IF outcome = "ok"
       THEN /\ procs' = Append(ps, NewProc(GtrCmd(a)))
            /\ pc' = "run_wait"
            /\ UNCHANGED <<ret, result, response, fault>>
       ELSE IF outcome = "FileNotFoundError"
       THEN /\ procs' = ps
            /\ ret' = "not_found"
            /\ result' = NotFoundResult
            /\ response' = _format_result(NotFoundResult, ctx)
            /\ pc' = "done"
            /\ UNCHANGED fault
       ELSE /\ procs' = ps
            /\ fault' = outcome
            /\ pc' = "raised"
            /\ UNCHANGED <<ret, result, response>>

\* the child the handler is waiting for is the one spawned last
Awaited == Len(procs)

\* communicate() drains both pipes of the child
Drained(p) == [p EXCEPT !.stdout = <<>>, !.stderr = <<>>]

\* lines 65-75: communicate() returned before the timer fired
Complete ==
    /\ pc = "run_wait"
    /\ procs[Awaited].status = "exited"
    /\ ret' = "exit"
    /\ result' = NormalResult(procs[Awaited].returncode,
                              procs[Awaited].stdout, procs[Awaited].stderr)
    /\ response' = _format_result(result', context)
    /\ procs' = [procs EXCEPT ![Awaited] = Drained(procs[Awaited])]
    /\ pc' = "done"
    /\ UNCHANGED <<tool, params, args, timeout, context, stage_exc, fault>>

\* lines 76-82: the wait_for timer fired first; wait_for cancels the
\* communicate() task and raises TimeoutError, nothing touches the child
TimeoutFires ==
    /\ pc = "run_wait"
    /\ ret' = "timeout"
    /\ result' = TimeoutResult(timeout, GtrCmd(args))
    /\ response' = _format_result(result', context)
    /\ pc' = "done"
    /\ UNCHANGED <<tool, params, args, timeout, context, procs, stage_exc, fault>>

-----------------------------------------------------------------------------
(* The environment: a running child exits, having written its output *)

ChildExit ==
    \E i \in 1..Len(procs), rc \in ExitCodes, out \in RawOutputs, err \in RawOutputs :
        /\ procs[i].status = "running"
        /\ procs' = [procs EXCEPT ![i] = [@ EXCEPT !.status = "exited",
                                                   !.returncode = rc,
                                                   !.stdout = out,
                                                   !.stderr = err]]
        /\ UNCHANGED <<pc, tool, params, args, timeout, context, stage_exc,
                       ret, result, response, fault>>

-----------------------------------------------------------------------------
(* The tool handlers *)

gitrama_commit ==
    \E message_type \in MessageTypes, ctx \in OptText, model \in OptText,
       outcome \in SpawnOutcomes :
        /\ pc = "idle"
        /\ tool' = "gitrama_commit"
        /\ params' = [message_type |-> message_type, context |-> ctx, model |-> model]
        /\ _run_gtr(procs, CommitArgs(message_type, ctx, model), DefaultTimeout,
                  <<"Commit created">>, outcome)
        /\ UNCHANGED stage_exc

\* the staging step with `except Exception: pass`: the handler goes on to
\* gitrama_commit after a failed launch
gitrama_stage_and_commit_Swallow ==
    \E files \in Files, message_type \in MessageTypes, ctx \in OptText,
       model \in OptText, outcome \in SpawnOutcomes, outcome2 \in SpawnOutcomes :
        /\ pc = "idle"
        /\ tool' = "gitrama_stage_and_commit"
        /\ params' = [files |-> files, message_type |-> message_type,
                      context |-> ctx, model |-> model]
        /\ IF outcome = "ok"
           THEN /\ procs' = Append(procs, NewProc(StageCmd(files)))
                /\ pc' = "stage_wait"
                /\ UNCHANGED <<stage_exc, args, timeout, context, ret, result,
                               response, fault>>
           ELSE /\ stage_exc' = outcome
                /\ _run_gtr(procs, CommitArgs(message_type, ctx, model),
                          DefaultTimeout, <<"Commit created">>, outcome2)

\* lines 164-176: the staging child is spawned, or the exception is caught
\* and the handler returns the staging error
gitrama_stage_and_commit ==
    \E files \in Files, message_type \in MessageTypes, ctx \in OptText,
       model \in OptText, outcome \in SpawnOutcomes :
        /\ pc = "idle"
        /\ tool' = "gitrama_stage_and_commit"
        /\ params' = [files |-> files, message_type |-> message_type,
                      context |-> ctx, model |-> model]
        /\ IF outcome = "ok"
           THEN /\ procs' = Append(procs, NewProc(StageCmd(files)))
                /\ pc' = "stage_wait"
                /\ UNCHANGED <<stage_exc, response>>
           ELSE /\ stage_exc' = outcome
                /\ response' = Cat(<<"[x] Failed to stage files: ">>,
                                   ExcText(outcome, <<"'git'">>))
                /\ pc' = "done"
                /\ UNCHANGED procs
        /\ UNCHANGED <<args, timeout, context, ret, result, fault>>

\* the staging step with a check of the exit code of git add: a non-zero
\* exit is reported and gitrama_commit is not called
StageDone_CheckExit ==
    \E outcome \in SpawnOutcomes :
        /\ pc = "stage_wait"
        /\ procs[Awaited].status = "exited"
        /\ IF procs[Awaited].returncode = 0
           THEN _run_gtr([procs EXCEPT ![Awaited] = Drained(procs[Awaited])],
                       CommitArgs(params.message_type, params.context, params.model),
                       DefaultTimeout, <<"Commit created">>, outcome)
           ELSE /\ response' = Cat(<<"[x] Failed to stage files: ">>,
                                   Strip(Decode(procs[Awaited].stderr)))
                /\ procs' = [procs EXCEPT ![Awaited] = Drained(procs[Awaited])]
                /\ pc' = "done"
                /\ UNCHANGED <<args, timeout, context, ret, result, fault>>
        /\ UNCHANGED <<tool, params, stage_exc>>

\* lines 174-183: stage_proc.communicate() returned (there is no timer on
\* it); its output and exit code are dropped and gitrama_commit is called
StageDone ==
    \E outcome \in SpawnOutcomes :
        /\ pc = "stage_wait"
        /\ procs[Awaited].status = "exited"
        /\ _run_gtr([procs EXCEPT ![Awaited] = Drained(procs[Awaited])],
                  CommitArgs(params.message_type, params.context, params.model),
                  DefaultTimeout, <<"Commit created">>, outcome)
        /\ UNCHANGED <<tool, params, stage_exc>>

gitrama_commit_quality ==
    \E count \in Counts, outcome \in SpawnOutcomes :
        /\ pc = "idle"
        /\ tool' = "gitrama_commit_quality"
        /\ params' = [count |-> count]
        /\ _run_gtr(procs, QualityArgs(count), DefaultTimeout,
                  <<"Commit quality analysis complete">>, outcome)
        /\ UNCHANGED stage_exc

gitrama_ask ==
    \E question \in ReqText, scope \in Scopes, model \in OptText,
       outcome \in SpawnOutcomes :
        /\ pc = "idle"
        /\ tool' = "gitrama_ask"
        /\ params' = [question |-> question, scope |-> scope, model |-> model]
        /\ _run_gtr(procs, AskArgs(question, scope, model), AskTimeout,
                  <<"Question answered">>, outcome)
        /\ UNCHANGED stage_exc

gitrama_branch ==
    \E name \in ReqText, base \in OptText, outcome \in SpawnOutcomes :
        /\ pc = "idle"
        /\ tool' = "gitrama_branch"
        /\ params' = [name |-> name, base |-> base]
        /\ _run_gtr(procs, BranchArgs(name, base), DefaultTimeout,
                  <<"Branch '">> \o name \o <<"' created">>, outcome)
        /\ UNCHANGED stage_exc

gitrama_branch_suggest ==
    \E description \in ReqText, model \in OptText, outcome \in SpawnOutcomes :
        /\ pc = "idle"
        /\ tool' = "gitrama_branch_suggest"
        /\ params' = [description |-> description, model |-> model]
        /\ _run_gtr(procs, BranchSuggestArgs(description, model), DefaultTimeout,
                  <<"Branch suggestions generated">>, outcome)
        /\ UNCHANGED stage_exc

gitrama_pr ==
    \E base \in OptText, model \in OptText, outcome \in SpawnOutcomes :
        /\ pc = "idle"
        /\ tool' = "gitrama_pr"
        /\ params' = [base |-> base, model |-> model]
        /\ _run_gtr(procs, PrArgs(base, model), DefaultTimeout,
                  <<"PR description generated">>, outcome)
        /\ UNCHANGED stage_exc

gitrama_changelog ==
    \E since \in OptText, until \in OptText, format \in Formats, model \in OptText,
       outcome \in SpawnOutcomes :
        /\ pc = "idle"
        /\ tool' = "gitrama_changelog"
        /\ params' = [since |-> since, until |-> until, format |-> format,
                      model |-> model]
        /\ _run_gtr(procs, ChangelogArgs(since, until, format, model), DefaultTimeout,
                  <<"Changelog generated">>, outcome)
        /\ UNCHANGED stage_exc

gitrama_stream_status ==
    \E outcome \in SpawnOutcomes :
        /\ pc = "idle"
        /\ tool' = "gitrama_stream_status"
        /\ params' = <<>>
        /\ _run_gtr(procs, <<(<<"stream">>), (<<"status">>)>>, DefaultTimeout,
                  <<"Stream status retrieved">>, outcome)
        /\ UNCHANGED stage_exc

gitrama_stream_switch ==
    \E name \in ReqText, description \in OptText, outcome \in SpawnOutcomes :
        /\ pc = "idle"
        /\ tool' = "gitrama_stream_switch"
        /\ params' = [name |-> name, description |-> description]
        /\ _run_gtr(procs, StreamSwitchArgs(name, description), DefaultTimeout,
                  <<"Switched to stream '">> \o name \o <<"'">>, outcome)
        /\ UNCHANGED stage_exc

gitrama_stream_list ==
    \E outcome \in SpawnOutcomes :
        /\ pc = "idle"
        /\ tool' = "gitrama_stream_list"
        /\ params' = <<>>
        /\ _run_gtr(procs, <<(<<"stream">>), (<<"list">>)>>, DefaultTimeout,
                  <<"Streams listed">>, outcome)
        /\ UNCHANGED stage_exc

-----------------------------------------------------------------------------

Next ==
    \/ gitrama_commit
    \/ gitrama_stage_and_commit
    \/ StageDone
    \/ gitrama_commit_quality
    \/ gitrama_ask
    \/ gitrama_branch
    \/ gitrama_branch_suggest
    \/ gitrama_pr
    \/ gitrama_changelog
    \/ gitrama_stream_status
    \/ gitrama_stream_switch
    \/ gitrama_stream_list
    \/ Complete
    \/ TimeoutFires
    \/ ChildExit

Spec == Init /\ [][Next]_vars

\* The event loop runs every callback that is ready: a handler whose awaited
\* communicate() has returned is resumed, and an armed wait_for timer fires.
\* Nothing obliges a child to exit.
FairSpec ==
    Spec /\ WF_vars(Complete) /\ WF_vars(TimeoutFires) /\ WF_vars(StageDone)

-----------------------------------------------------------------------------
(* Vocabulary of the properties *)

\* `sub` occurs in `text`
Contains(text, sub) ==
    \E i \in 1..(Len(text) - Len(sub) + 1) : SubSeq(text, i, i + Len(sub) - 1) = sub

\* the int a decimal numeral denotes, or None
DigitValue(c) ==
    CASE c = "0" -> 0 [] c = "1" -> 1 [] c = "2" -> 2 [] c = "3" -> 3 [] c = "4" -> 4
      [] c = "5" -> 5 [] c = "6" -> 6 [] c = "7" -> 7 [] c = "8" -> 8 [] c = "9" -> 9
      [] OTHER -> -1

RECURSIVE NatOf(_)
NatOf(numeral) ==
    IF Len(numeral) = 1 THEN DigitValue(numeral[1])
    ELSE 10 * NatOf(SubSeq(numeral, 1, Len(numeral) - 1)) + DigitValue(numeral[Len(numeral)])

IsNumeral(text) ==
    /\ text # <<>>
    /\ \A i \in 1..Len(text) : DigitValue(text[i]) >= 0

\* the flags of the external CLI that take the value of a parameter
ValueFlags ==
    {<<"--type">>, <<"--context">>, <<"--model">>, <<"--count">>, <<"--scope">>,
     <<"--base">>, <<"--since">>, <<"--until">>, <<"--format">>, <<"--description">>}

\* _run_gtr has returned a dict to the handler
RunnerReturned == ret # None

\* the confirmation each capability gives for a success without output
Confirmation ==
    CASE tool = "gitrama_commit" -> <<"[ok] ", "Commit created">>
      [] tool = "gitrama_stage_and_commit" -> <<"[ok] ", "Commit created">>
      [] tool = "gitrama_commit_quality" -> <<"[ok] ", "Commit quality analysis complete">>
      [] tool = "gitrama_ask" -> <<"[ok] ", "Question answered">>
      [] tool = "gitrama_branch" -> <<"[ok] ", "Branch '">> \o params.name \o <<"' created">>
      [] tool = "gitrama_branch_suggest" -> <<"[ok] ", "Branch suggestions generated">>
      [] tool = "gitrama_pr" -> <<"[ok] ", "PR description generated">>
      [] tool = "gitrama_changelog" -> <<"[ok] ", "Changelog generated">>
      [] tool = "gitrama_stream_status" -> <<"[ok] ", "Stream status retrieved">>
      [] tool = "gitrama_stream_switch" ->
            <<"[ok] ", "Switched to stream '">> \o params.name \o <<"'">>
      [] tool = "gitrama_stream_list" -> <<"[ok] ", "Streams listed">>

\* the children of one program that were spawned
Spawned(program) == {i \in 1..Len(procs) : procs[i].cmd[1] = program}

-----------------------------------------------------------------------------
(* The properties *)

\* C1: once _run_gtr has returned its timeout result, the child it spawned
\* is no longer running.
C1_TimedOutChildTerminated ==
    ret = "timeout" => procs[Awaited].status # "running"

\* C2: no way the spawn or the wait can fail makes an exception escape a tool
\* handler; every failure comes back as the returned string.
C2_NoUncaughtFault ==
    /\ pc # "raised"
    /\ fault = None

\* C3: when the staging step of stage-and-commit fails to launch, no gtr
\* child is spawned in the invocation and the handler has returned the
\* staging error.
C3_StageLaunchFailureSkipsCommit ==
    stage_exc # None =>
        /\ Spawned(<<"gtr">>) = {}
        /\ pc = "done"
        /\ ret = None
        /\ Len(response) > 1
        /\ response[1] = "[x] Failed to stage files: "

C3_Witness ==
    /\ tool = "gitrama_stage_and_commit"
    /\ stage_exc = "PermissionError"
    /\ pc = "done"
    /\ procs = <<>>

\* C4: in the argument vector given to the external CLI no flag that takes
\* the value of a parameter is followed by the empty string.
C4_NoEmptyFlagValue ==
    \A i \in 1..(Len(args) - 1) : args[i] \in ValueFlags => args[i + 1] # <<>>

\* C5: a result returned on timeout or on executable-not-found has
\* success = false, returncode = -1 and an empty stdout; its stderr names
\* the command and the seconds on timeout and is the installation hint when
\* the executable was not found.  A result returned on a normal exit has
\* success = true exactly when the exit code of the child is 0.
C5_RunnerResult ==
    /\ ret = "timeout" =>
        /\ result.success = FALSE
        /\ result.returncode = -1
        /\ result.stdout = <<>>
        /\ Contains(result.stderr, <<"gtr">>)
        /\ \A i \in 1..Len(args) : Contains(result.stderr, args[i])
        /\ tool = "gitrama_ask" => Contains(result.stderr, <<"1", "8", "0", "s: ">>)
        /\ tool # "gitrama_ask" => Contains(result.stderr, <<"1", "2", "0", "s: ">>)
    /\ ret = "not_found" =>
        /\ result.success = FALSE
        /\ result.returncode = -1
        /\ result.stdout = <<>>
        /\ result.stderr =
             <<"gitrama CLI not found. Install with: pip install gitrama\nDocs: https://gitrama.ai">>
    /\ ret = "exit" =>
        /\ result.returncode = procs[Awaited].returncode
        /\ result.success = (result.returncode = 0)

C5_Witness ==
    /\ ret = "timeout"
    /\ tool = "gitrama_ask"
    /\ pc = "done"
    /\ procs[Awaited].status = "running"

\* C6: the response to a failed result is the error prefix followed by
\* stderr if it is not empty, else by stdout if it is not empty, else by
\* "Unknown error".
C6_FailedResultFormat ==
    (RunnerReturned /\ ~result.success) =>
        /\ pc = "done"
        /\ result.stderr # <<>> => response = <<"[x] Error: ">> \o result.stderr
        /\ (result.stderr = <<>> /\ result.stdout # <<>>) =>
              response = <<"[x] Error: ">> \o result.stdout
        /\ (result.stderr = <<>> /\ result.stdout = <<>>) =>
              response = <<"[x] Error: ", "Unknown error">>

C6_Witness ==
    /\ ret = "exit"
    /\ result.returncode = 1
    /\ result.stderr = <<>>
    /\ result.stdout = <<"a">>
    /\ response = <<"[x] Error: ", "a">>

\* C7: the response to a successful result is its stdout when that is not
\* empty and the confirmation of the capability when it is; it is never the
\* empty string.
C7_SuccessfulResultFormat ==
    (RunnerReturned /\ result.success) =>
        /\ pc = "done"
        /\ result.stdout # <<>> => response = result.stdout
        /\ result.stdout = <<>> => response = Confirmation
        /\ response # <<>>

C7_Witness ==
    /\ tool = "gitrama_branch"
    /\ params.name = <<"q">>
    /\ ret = "exit"
    /\ result.success
    /\ result.stdout = <<>>
    /\ response = <<"[ok] ", "Branch '", "q", "' created">>

\* C8: the count that commit-quality passes after --count is the supplied
\* count when that is in 1..50, 1 when it is below 1 and 50 when it is
\* above 50.
C8_CountClamped ==
    (tool = "gitrama_commit_quality" /\ pc # "idle") =>
        /\ Len(args) = 4
        /\ args[3] = <<"--count">>
        /\ IsNumeral(args[4])
        /\ NatOf(args[4]) \in 1..50
        /\ params.count \in 1..50 => NatOf(args[4]) = params.count
        /\ params.count < 1 => NatOf(args[4]) = 1
        /\ params.count > 50 => NatOf(args[4]) = 50

C8_Witness ==
    /\ tool = "gitrama_commit_quality"
    /\ params.count = 0
    /\ pc = "run_wait"
    /\ procs[1].cmd = <<(<<"gtr">>), (<<"commit">>), (<<"--quality">>), (<<"--count">>), (<<"1">>)>>

\* C9: every tool invocation eventually ends, whether or not the children it
\* spawned ever exit.
C9_InvocationEnds ==
    (pc # "idle") ~> (pc \in {"done", "raised"})

====
